---- MODULE Spec2Model ----
(***************************************************************************)
(* Model of the real-time streaming classification pipeline of             *)
(* src/11-real-time.ipynb: the event-driven file watcher (tr_watcher,      *)
(* file_notify_handler), the controller loop (realtime) and the cell that  *)
(* calls it.  Indices are the Python (0-based) indices of the source;      *)
(* a volume file is identified by its sequence index.                      *)
(***************************************************************************)
EXTENDS Integers, Sequences, FiniteSets, TLC

\* ------------------------------------------------------------------ bounds
\* Live runs (Spec): the producer writes the files while realtime runs.
\* Largest number of labels (= number of volumes, len(labels)) of a live run.
MaxN == 3
\* Largest incremental_batch argument of a live run.
MaxB == 1
\* How many volume files the external producer may be ahead of the consumer.
MaxAhead == 2
\* Largest number of notifications in flight (emitted or queued, not yet read).
MaxBacklog == 2
\* Replayed runs (SpecReplay): every file is on disk when realtime starts.
\* Largest number of labels of a replayed run.
MaxLabels == 10
\* Largest incremental_batch argument of a replayed run.
MaxBatch == 4
\* Number of volume files the data directory can hold.
MaxFiles == IF MaxN > MaxLabels THEN MaxN ELSE MaxLabels

\* ------------------------------------------------------- program constants
\* tr_shift = 3: the labels are shifted by three TRs.
tr_shift == 3

VARIABLES
    labels,             \* content of labels.npy: Python labels[i] is labels[i+1]
    train_count,        \* argument train_count
    incremental_batch,  \* argument incremental_batch
    clf_obj,            \* argument clf_obj: which trainer was passed
    label_file,         \* does labels.npy exist
    fs,                 \* the data directory: state of each volume file
    pending,            \* creation events the observer has seen and not yet handled
    file_queue,         \* the run's Queue of events (event.src_path as an index)
    file_observer,      \* the observer created inside realtime
    global_observer,    \* the module-level file_observer of the notebook
    pc,                 \* position of the consumer
    idx,                \* loop variable of realtime
    vol,                \* file the watcher loaded last
    tr_data,            \* set of the rows of tr_data that are not NaN
    clf,                \* the live model, or NoModel while clf is unbound
    num_correct,        \* num_correct
    accuracy,           \* accuracy as <<numerator, denominator>>, or Unbound
    err,                \* the exception that left realtime, or "none"
    processed,          \* history: the files loaded and preprocessed, in order
    fitLog,             \* history: the initial calls of clf_obj
    predLog,            \* history: the calls of clf.predict
    updLog,             \* history: the update calls of clf_obj
    maxNotified,        \* history: highest index put on the queue so far
    inversion,          \* history: first <<hi, lo>> with hi queued before lo < hi
    woken,              \* history: how the last call of tr_watcher left its wait
    dropped,            \* history: <<event, idx>> for each event read and dropped
    consumed,           \* history: the events file_queue.get() returned, in order
    lastPred            \* history: the last prediction as returned and as compared

vars == <<labels, train_count, incremental_batch, clf_obj, label_file, fs,
          pending, file_queue, file_observer, global_observer, pc, idx, vol,
          tr_data, clf, num_correct, accuracy, err, processed, fitLog,
          predLog, updLog, maxNotified, inversion, woken, dropped,
          consumed, lastPred>>

config == <<labels, train_count, incremental_batch, clf_obj>>
producer == <<label_file, fs, pending, file_queue>>
consumer == <<pc, idx, vol, tr_data, clf, num_correct, accuracy, err>>
history == <<processed, fitLog, predLog, updLog, lastPred>>
notified == <<maxNotified, inversion>>
watched == <<woken, dropped, consumed>>

NoModel == [id |-> 0, ver |-> 0]
Unbound == <<>>
NoVol == -1

\* len(labels)
N == Len(labels)

\* ----------------------------------------------------------- Python helpers
Min(a, b) == IF a < b THEN a ELSE b
Max(a, b) == IF a > b THEN a ELSE b

\* A slice bound as Python normalises it on a sequence of length len.
PyBound(len, x) == IF x < 0 THEN Max(x + len, 0) ELSE Min(x, len)

\* The indices that seq[a:b] selects on a sequence of length len, in order.
PySlice(len, a, b) ==
    LET lo == PyBound(len, a)
        hi == PyBound(len, b)
    IN  [k \in 1..Max(hi - lo, 0) |-> lo + k - 1]

\* The index that seq[i] reads on a sequence of length len (negative wraps).
PyIndex(len, i) == IF i < 0 THEN i + len ELSE i

Range(s) == {s[k] : k \in DOMAIN s}

\* The label sequence of n volumes a run is tried on: the conditions 1 and 2
\* alternating, [1, 2, 1, 2, ...].
LabelSeq(n) == [i \in 1..n |-> 2 - (i % 2)]

\* ------------------------------------------------------------------- Init
\* The state when the cell that calls realtime starts, for the arguments and
\* the label sequence chosen.
Start(maxn, maxb) ==
    /\ \E n \in 0..maxn : labels = LabelSeq(n)
    /\ train_count \in -1..maxn
    /\ incremental_batch \in 0..maxb
    /\ clf_obj \in {"train_logistic", "train_incremental"}
    /\ pending = {}
    /\ file_queue = <<>>
    /\ file_observer = "none"
    /\ global_observer = "stopped"
    /\ pc = "labelwait"
    /\ idx = 0
    /\ vol = NoVol
    /\ tr_data = {}
    /\ clf = NoModel
    /\ num_correct = 0
    /\ accuracy = Unbound
    /\ err = "none"
    /\ processed = <<>>
    /\ fitLog = <<>>
    /\ predLog = <<>>
    /\ updLog = <<>>
    /\ lastPred = <<>>
    /\ maxNotified = -1
    /\ inversion = <<>>
    /\ woken = "none"
    /\ dropped = {}
    /\ consumed = <<>>

\* A live run: nothing is on disk yet.
Init ==
    /\ Start(MaxN, MaxB)
    /\ label_file = FALSE
    /\ fs = [i \in 0..(MaxFiles - 1) |-> "absent"]

\* A replayed run: the producer has finished, labels and volumes are on disk.
InitReplay ==
    /\ Start(MaxLabels, MaxBatch)
    /\ label_file = TRUE
    /\ fs = [i \in 0..(MaxFiles - 1) |-> IF i < N THEN "complete" ELSE "absent"]

\* ------------------------------------------------- the external producer
\* The label file is written by the producer before or during the run.
CreateLabelFile ==
    /\ ~label_file
    /\ label_file' = TRUE
    /\ UNCHANGED <<config, fs, pending, file_queue, file_observer,
                   global_observer, consumer, history, notified, watched>>

\* Notifications that were emitted and are not yet read by the consumer.
Backlog == Cardinality(pending) + Len(file_queue)

\* The producer creates the file of volume i, either with its contents
\* ("complete") or with the name only, the contents following later
\* ("partial").  It writes the sequentially numbered files one after the
\* other.  A running observer sees the creation of a *.npy file.
CreateFile(i, st) ==
    /\ i \in 0..(N - 1)
    /\ fs[i] = "absent"
    /\ i < idx + MaxAhead
    /\ \A j \in 0..(i - 1) : fs[j] = "complete"
    /\ file_observer = "running" => Backlog < MaxBacklog
    /\ fs' = [fs EXCEPT ![i] = st]
    /\ pending' = IF file_observer = "running" THEN pending \cup {i} ELSE pending
    /\ UNCHANGED <<config, label_file, file_queue, file_observer,
                   global_observer, consumer, history, notified, watched>>

\* The contents of a file whose name exists are flushed.
FlushFile(i) ==
    /\ i \in 0..(N - 1)
    /\ fs[i] = "partial"
    /\ fs' = [fs EXCEPT ![i] = "complete"]
    /\ UNCHANGED <<config, label_file, pending, file_queue, file_observer,
                   global_observer, consumer, history, notified, watched>>

\* A handler that puts the event at the head of the queue.
on_created_first(i) ==
    /\ file_observer = "running"
    /\ i \in pending
    /\ pending' = pending \ {i}
    /\ file_queue' = <<i>> \o file_queue
    /\ maxNotified' = IF i > maxNotified THEN i ELSE maxNotified
    /\ inversion' = inversion
    /\ UNCHANGED <<config, label_file, fs, file_observer, global_observer,
                   consumer, history, watched>>

\* A handler that puts every event on the queue twice.
on_created_twice(i) ==
    /\ file_observer = "running"
    /\ i \in pending
    /\ pending' = pending \ {i}
    /\ file_queue' = Append(Append(file_queue, i), i)
    /\ maxNotified' = IF i > maxNotified THEN i ELSE maxNotified
    /\ inversion' = inversion
    /\ UNCHANGED <<config, label_file, fs, file_observer, global_observer,
                   consumer, history, watched>>
\* file_notify_handler.on_created: self.q.put(event), on the observer's thread.
on_created(i) ==
    /\ file_observer = "running"
    /\ i \in pending
    /\ pending' = pending \ {i}
    /\ file_queue' = Append(file_queue, i)
    /\ maxNotified' = Max(maxNotified, i)
    /\ inversion' = IF inversion = <<>> /\ i < maxNotified
                    THEN <<maxNotified, i>> ELSE inversion
    /\ UNCHANGED <<config, label_file, fs, file_observer, global_observer,
                   consumer, history, watched>>

\* -------------------------------------------------------------- realtime
\* The exception `kind` leaves realtime: nothing in realtime catches it.
Raise(kind) ==
    /\ pc' = "raised"
    /\ err' = kind

\* The observer set up and the loop entered without the wait for the label
\* file.
SetupWithoutLabels ==
    /\ pc = "labelwait"
    /\ file_observer' = "running"
    /\ file_queue' = <<>>
    /\ num_correct' = 0
    /\ idx' = 0
    /\ pc' = IF N > 0 THEN "check" ELSE "stop"
    /\ UNCHANGED <<config, label_file, fs, pending, global_observer, vol,
                   tr_data, clf, accuracy, err, history, notified, watched>>

\* Lines 501-536: wait for the label file, load labels and mask, allocate
\* tr_data, create and start the run's observer and queue.
Setup ==
    /\ pc = "labelwait"
    /\ label_file
    /\ file_observer' = "running"
    /\ file_queue' = <<>>
    /\ num_correct' = 0
    /\ idx' = 0
    /\ pc' = IF N > 0 THEN "check" ELSE "stop"
    /\ UNCHANGED <<config, label_file, fs, pending, global_observer, vol,
                   tr_data, clf, accuracy, err, history, notified, watched>>

\* next_filename = data_dir + file_pattern.format(idx)
NextFilename(i) == i

\* A watcher that trusts the order of the events: it loads the file of
\* whichever event comes first.
WatcherReturnFromEvent(event, filename) == event
\* A watcher whose wait ends on any event.
WatcherReturnOnAny(event, filename) == filename
\* if event.src_path == filename: file_exists = True.  The file tr_watcher
\* goes on to load after reading this event, NoVol when it keeps waiting.
WatcherReturn(event, filename) == IF event = filename THEN filename ELSE NoVol

\* np.load(filename) at the end of tr_watcher: the volume of a complete
\* file, an error for a file whose contents are not there yet.
NpLoad(filename) ==
    IF fs[filename] = "complete"
    THEN /\ vol' = filename
         /\ pc' = "loaded"
         /\ err' = err
    ELSE /\ vol' = vol
         /\ Raise("load")

\* tr_watcher, os.path.exists(filename) is true: no queue read, load at once.
TrWatcherExists ==
    /\ pc = "check"
    /\ fs[NextFilename(idx)] # "absent"
    /\ NpLoad(NextFilename(idx))
    /\ woken' = "exists"
    /\ UNCHANGED <<config, producer, file_observer, global_observer, idx,
                   tr_data, clf, num_correct, accuracy, history, notified,
                   dropped, consumed>>

\* tr_watcher, os.path.exists(filename) is false: enter the while loop.
TrWatcherMissing ==
    /\ pc = "check"
    /\ fs[NextFilename(idx)] = "absent"
    /\ pc' = "get"
    /\ UNCHANGED <<config, producer, file_observer, global_observer, idx, vol,
                   tr_data, clf, num_correct, accuracy, err, history, notified, watched>>

\* A watcher that reads the queue with a timeout: file_queue.get(timeout=t)
\* raises queue.Empty when nothing is queued in time.
TrWatcherGetTimeout ==
    /\ pc = "get"
    /\ IF file_queue = <<>>
       THEN /\ Raise("Empty")
            /\ UNCHANGED <<file_queue, vol, watched>>
       ELSE LET event == Head(file_queue)
                found == WatcherReturn(event, NextFilename(idx))
            IN  /\ file_queue' = Tail(file_queue)
                /\ consumed' = Append(consumed, event)
                /\ IF found # NoVol
                   THEN /\ NpLoad(found)
                        /\ woken' = "event"
                        /\ dropped' = dropped
                   ELSE /\ dropped' = dropped \cup {<<event, idx>>}
                        /\ UNCHANGED <<pc, vol, err, woken>>
    /\ UNCHANGED <<config, label_file, fs, pending, file_observer,
                   global_observer, idx, tr_data, clf, num_correct, accuracy,
                   history, notified>>

\* tr_watcher, one turn of the while loop: file_queue.get() blocks until an
\* event is there; a matching event ends the loop, any other is dropped.
TrWatcherGet ==
    /\ pc = "get"
    /\ file_queue # <<>>
    /\ LET event == Head(file_queue)
           found == WatcherReturn(event, NextFilename(idx))
       IN  /\ file_queue' = Tail(file_queue)
           /\ consumed' = Append(consumed, event)
           /\ IF found # NoVol
              THEN /\ NpLoad(found)
                   /\ woken' = "event"
                   /\ dropped' = dropped
              ELSE /\ dropped' = dropped \cup {<<event, idx>>}
                   /\ UNCHANGED <<pc, vol, err, woken>>
    /\ UNCHANGED <<config, label_file, fs, pending, file_observer,
                   global_observer, idx, tr_data, clf, num_correct, accuracy,
                   history, notified>>

\* ---- the trainers passed as clf_obj
\* all_classes = np.array([1, 2]): the labels of the two conditions.
all_classes == {1, 2}

\* A model object nobody has seen before, first version of its weights.
FreshModel == [id |-> 1, ver |-> 1]

\* train_logistic(training_data, training_labels, parameters='l2'): always a
\* new LogisticRegression(penalty=parameters).
train_logistic(parameters) == FreshModel

\* A trainer that makes a new SGDClassifier at every call.
train_incremental_anew(parameters) == [id |-> parameters.id + 1, ver |-> 1]

\* train_incremental(training_data, training_labels, parameters=None): a new
\* SGDClassifier when parameters is None, else partial_fit on parameters.
train_incremental(parameters) ==
    IF parameters = NoModel
    THEN FreshModel
    ELSE [parameters EXCEPT !.ver = @ + 1]

\* partial_fit(..., classes=all_classes): the class set a call of the
\* trainer declares; train_logistic declares none.
DeclaredClasses == IF clf_obj = "train_incremental" THEN all_classes ELSE {}

\* What clf_obj(data, labels[, parameters]) returns when it returns.
ClfObj(parameters) ==
    IF clf_obj = "train_logistic"
    THEN train_logistic(parameters)
    ELSE train_incremental(parameters)

\* Can the call return at all: train_logistic takes its third argument as
\* the penalty, so a model passed there makes the fit raise.
ClfObjCanReturn(parameters) ==
    clf_obj = "train_logistic" => parameters = NoModel

\* clf.fit(training_data, training_labels == 2): the target train_logistic
\* fits for a label, a boolean (False as 0, True as 1).
LogisticTarget(label) == IF label = 2 THEN 1 ELSE 0

\* The target value the trainer passed as clf_obj fits for a label.
FitTarget(label) ==
    IF clf_obj = "train_logistic" THEN LogisticTarget(label) ELSE label

\* What clf.predict returns: one of the target values of the fit, a boolean
\* for a model fitted on labels == 2, a class of all_classes for the
\* incremental model.
PredictOutputs ==
    {[dtype |-> IF clf_obj = "train_logistic" THEN "bool" ELSE "int",
      val |-> FitTarget(c)] : c \in all_classes}

\* A comparison of the prediction as it is returned, without the + 1.
AsLabelUnshifted(raw) == raw.val
\* if prediction.dtype == 'bool': prediction = prediction + 1
AsLabel(raw) == IF raw.dtype = "bool" THEN raw.val + 1 ELSE raw.val

\* A loop that starts with clf bound to a default classifier: predict
\* returns a label whether or not a fit was made.
PredictCanReturnUnfitted(model) == TRUE
\* clf.predict(...) can be called only when clf is bound: clf is assigned by
\* the calls of clf_obj and nowhere else.
PredictCanReturn(model) == model # NoModel

\* ---- the slices and indices of the loop body
\* tr_data[tr_shift:train_count, :]
FitRows == PySlice(N, tr_shift, train_count)
\* labels[0:train_count - tr_shift]
FitLabels == PySlice(N, 0, train_count - tr_shift)
\* start_idx = idx - incremental_batch
StartIdx(i) == i - incremental_batch
\* tr_data[start_idx + tr_shift:idx, :]
UpdRows(i) == PySlice(N, StartIdx(i) + tr_shift, i)
\* labels[start_idx:idx - tr_shift]
UpdLabels(i) == PySlice(N, StartIdx(i), i - tr_shift)
\* labels[idx - tr_shift]
EvalLabel(i) == PyIndex(N, i - tr_shift)
\* A later version of the update test: incremental_batch >= 0, where
\* np.mod(x, 0) is 0.
UpdateDueModZero(i) ==
    IF incremental_batch = 0
    THEN TRUE
    ELSE (i - train_count) % incremental_batch = 0
\* The update test taken on the index itself, not on the distance from the
\* threshold: np.mod(idx, incremental_batch) == 0.
UpdateDueOnIndex(i) ==
    /\ incremental_batch > 0
    /\ i % incremental_batch = 0
\* incremental_batch > 0 and np.mod((idx - train_count), incremental_batch) == 0
UpdateDue(i) ==
    /\ incremental_batch > 0
    /\ (i - train_count) % incremental_batch = 0
\* The update moved above clf.predict: the prediction sees the new weights.
PredictionModelUpdated(i) ==
    IF UpdateDue(i) /\ ClfObjCanReturn(clf) THEN ClfObj(clf) ELSE clf
\* The model clf.predict is called on: the statement comes before the update.
PredictionModel(i) == clf
\* if idx < train_count
IsCollecting(i) == i < train_count
\* elif idx == train_count, written as idx >= train_count
IsTrainingFrom(i) == i >= train_count
\* elif idx == train_count
IsTraining(i) == i = train_count
\* elif idx > train_count
IsTesting(i) == i > train_count

\* A comparison that feeds back: the model is adjusted after every miss.
ModelAfterCompareFeedback(model, hit) ==
    IF hit THEN model ELSE [model EXCEPT !.ver = @ + 1]
\* if prediction == labels[idx - tr_shift]: num_correct += 1.  The model
\* that is live after the comparison: the comparison touches num_correct only.
ModelAfterCompare(model, hit) == model

\* A divisor that counts the volume at train_count as classified.
ClassifiedFromThreshold(i) == i - train_count + 1
\* The divisor of the running accuracy: idx - train_count
Classified(i) == i - train_count

\* A loop over range(len(labels) - 1): the last index is left out.
ContinueShort ==
    /\ idx' = idx + 1
    /\ pc' = IF idx + 1 < N - 1 THEN "check" ELSE "stop"
    /\ err' = err
\* The end of one turn of the for loop: on to the next index, or out.
Continue ==
    /\ idx' = idx + 1
    /\ pc' = IF idx + 1 < N THEN "check" ELSE "stop"
    /\ err' = err

\* idx < train_count: the volume is only stored.
Collect ==
    /\ IsCollecting(idx)
    /\ Continue
    /\ UNCHANGED <<clf, num_correct, accuracy, fitLog, predLog, updLog, lastPred>>

\* idx == train_count: the initial call of clf_obj.
Train ==
    /\ ~IsCollecting(idx)
    /\ IsTraining(idx)
    /\ fitLog' = Append(fitLog, [at |-> idx, rows |-> FitRows, labs |-> FitLabels,
                           classes |-> DeclaredClasses])
    /\ \E ok \in BOOLEAN :
          IF ok /\ ClfObjCanReturn(NoModel)
          THEN /\ clf' = ClfObj(NoModel)
               /\ Continue
          ELSE /\ clf' = clf
               /\ idx' = idx
               /\ Raise("fit")
    /\ UNCHANGED <<num_correct, accuracy, predLog, updLog, lastPred>>

\* idx > train_count: predict, compare, and update when a batch is complete.
Test ==
    /\ ~IsCollecting(idx)
    /\ ~IsTraining(idx)
    /\ IsTesting(idx)
    /\ \/ /\ Raise(IF PredictCanReturn(clf) THEN "predict" ELSE "UnboundLocalError")
          /\ UNCHANGED <<idx, clf, num_correct, accuracy, predLog, updLog,
                         lastPred>>
       \/ \E raw \in PredictOutputs :
             LET prediction == AsLabel(raw)
                 lab == EvalLabel(idx)
                 hit == prediction = labels[lab + 1]
             IN  /\ PredictCanReturn(clf)
                 /\ num_correct' = IF hit THEN num_correct + 1 ELSE num_correct
                 /\ accuracy' = <<num_correct', Classified(idx)>>
                 /\ lastPred' = [raw |-> raw, compared |-> prediction,
                                  lab |-> lab, hit |-> hit]
                 /\ predLog' = Append(predLog, [at |-> idx,
                                                model |-> PredictionModel(idx),
                                                lab |-> lab])
                 /\ IF UpdateDue(idx)
                    THEN \E ok \in BOOLEAN :
                           LET live == ModelAfterCompare(clf, hit)
                               done == ok /\ ClfObjCanReturn(live)
                           IN  /\ updLog' = Append(updLog,
                                      [at |-> idx, rows |-> UpdRows(idx),
                                       labs |-> UpdLabels(idx),
                                       classes |-> DeclaredClasses,
                                       before |-> live, returned |-> done])
                               /\ IF done
                                  THEN /\ clf' = ClfObj(live)
                                       /\ Continue
                                  ELSE /\ clf' = live
                                       /\ idx' = idx
                                       /\ Raise("update")
                    ELSE /\ Continue
                         /\ clf' = ModelAfterCompare(clf, hit)
                         /\ updLog' = updLog
    /\ UNCHANGED fitLog

\* Lines 543-595: one turn of the for loop after the watcher returned.
LoopBody ==
    /\ pc = "loaded"
    /\ \/ /\ Raise("preprocess")
          /\ UNCHANGED <<idx, tr_data, clf, num_correct, accuracy, history>>
       \/ /\ tr_data' = tr_data \cup {idx}
          /\ processed' = Append(processed, vol)
          /\ (Collect \/ Train \/ Test)
    /\ UNCHANGED <<config, producer, file_observer, global_observer, vol,
                   notified, watched>>

\* A run whose accuracy is preset before the loop: return accuracy has a
\* value to return also when nothing was classified.
StopAndReturnPreset ==
    /\ pc = "stop"
    /\ file_observer' = "stopped"
    /\ pc' = "returned"
    /\ err' = err
    /\ UNCHANGED <<config, producer, global_observer, idx, vol, tr_data, clf,
                   num_correct, accuracy, history, notified, watched>>

\* The observer thread joined before it is told to stop: join() returns
\* only for an observer that is not running.
StopAfterJoin ==
    /\ pc = "stop"
    /\ file_observer # "running"
    /\ file_observer' = "stopped"
    /\ IF accuracy = Unbound
       THEN Raise("UnboundLocalError")
       ELSE /\ pc' = "returned"
            /\ err' = err
    /\ UNCHANGED <<config, producer, global_observer, idx, vol, tr_data, clf,
                   num_correct, accuracy, history, notified, watched>>

\* Lines 597-601: file_observer.stop(); return accuracy.  accuracy is
\* assigned only in the testing branch.
StopAndReturn ==
    /\ pc = "stop"
    /\ file_observer' = "stopped"
    /\ IF accuracy = Unbound
       THEN Raise("UnboundLocalError")
       ELSE /\ pc' = "returned"
            /\ err' = err
    /\ UNCHANGED <<config, producer, global_observer, idx, vol, tr_data, clf,
                   num_correct, accuracy, history, notified, watched>>

\* The calling cell: except Exception as err: file_observer.stop(), where
\* file_observer is the module-level observer, not the one of the run.
CallerExcept ==
    /\ pc = "raised"
    /\ global_observer' = "stopped"
    /\ pc' = "caught"
    /\ UNCHANGED <<config, producer, file_observer, idx, vol, tr_data, clf,
                   num_correct, accuracy, err, history, notified, watched>>

Next ==
    \/ CreateLabelFile
    \/ \E i \in 0..(MaxFiles - 1), st \in {"partial", "complete"} : CreateFile(i, st)
    \/ \E i \in 0..(MaxFiles - 1) : FlushFile(i)
    \/ \E i \in 0..(MaxFiles - 1) : on_created(i)
    \/ Setup
    \/ TrWatcherExists
    \/ TrWatcherMissing
    \/ TrWatcherGet
    \/ LoopBody
    \/ StopAndReturn
    \/ CallerExcept

Spec == Init /\ [][Next]_vars

\* A live run whose threads keep running: the observer's thread delivers
\* every event it has seen, and the consumer takes every step of tr_watcher
\* that it can take.  The producer is under no obligation.
SpecLive ==
    /\ Init
    /\ [][Next]_vars
    /\ WF_vars(\E i \in 0..(MaxFiles - 1) : on_created(i))
    /\ WF_vars(TrWatcherExists)
    /\ WF_vars(TrWatcherMissing)
    /\ WF_vars(TrWatcherGet)

\* ------------------------------------------------------ tr_watcher_simple
\* A call tr_watcher_simple(file_pattern.format(idx)) on a directory the
\* producer is writing to: no observer, no queue, no run of realtime.
InitSimple ==
    /\ \E n \in 1..MaxLabels : labels = LabelSeq(n)
    /\ idx \in 0..(N - 1)
    /\ pc = "exists"
    /\ train_count = 0
    /\ incremental_batch = 0
    /\ clf_obj = "train_logistic"
    /\ label_file = FALSE
    /\ fs = [i \in 0..(MaxFiles - 1) |-> "absent"]
    /\ pending = {}
    /\ file_queue = <<>>
    /\ file_observer = "none"
    /\ global_observer = "stopped"
    /\ vol = NoVol
    /\ tr_data = {}
    /\ clf = NoModel
    /\ num_correct = 0
    /\ accuracy = Unbound
    /\ err = "none"
    /\ processed = <<>>
    /\ fitLog = <<>>
    /\ predLog = <<>>
    /\ updLog = <<>>
    /\ lastPred = <<>>
    /\ maxNotified = -1
    /\ inversion = <<>>
    /\ woken = "none"
    /\ dropped = {}
    /\ consumed = <<>>

\* while not os.path.exists(filename): the test of the loop.  When the file
\* exists the loop is left and np.load(filename) is called.
TrWatcherSimpleExists ==
    /\ pc = "exists"
    /\ IF fs[NextFilename(idx)] # "absent"
       THEN NpLoad(NextFilename(idx))
       ELSE /\ pc' = "sleep"
            /\ UNCHANGED <<vol, err>>
    /\ UNCHANGED <<config, producer, file_observer, global_observer, idx,
                   tr_data, clf, num_correct, accuracy, history, notified,
                   watched>>

\* A loop on a test made once, before the loop: after the sleep the
\* existence of the file is not looked at again.
TrWatcherSimpleSleepOnly ==
    /\ pc = "sleep"
    /\ pc' = "sleep"
    /\ woken' = "sleep"
    /\ UNCHANGED <<config, producer, file_observer, global_observer, idx, vol,
                   tr_data, clf, num_correct, accuracy, err, history, notified,
                   dropped, consumed>>

\* time.sleep(sleep_time), then back to the test of the loop.
TrWatcherSimpleSleep ==
    /\ pc = "sleep"
    /\ pc' = "exists"
    /\ woken' = "sleep"
    /\ UNCHANGED <<config, producer, file_observer, global_observer, idx, vol,
                   tr_data, clf, num_correct, accuracy, err, history, notified,
                   dropped, consumed>>

NextSimple ==
    \/ \E i \in 0..(MaxFiles - 1), st \in {"partial", "complete"} : CreateFile(i, st)
    \/ \E i \in 0..(MaxFiles - 1) : FlushFile(i)
    \/ TrWatcherSimpleExists
    \/ TrWatcherSimpleSleep

\* The thread of the watcher keeps running: a test or a sleep that can be
\* done is done.
SpecSimple ==
    /\ InitSimple
    /\ [][NextSimple]_vars
    /\ WF_vars(TrWatcherSimpleExists)
    /\ WF_vars(TrWatcherSimpleSleep)

\* A replayed run is the consumer alone: the producer has nothing left to do.
NextReplay ==
    \/ Setup
    \/ TrWatcherExists
    \/ LoopBody
    \/ StopAndReturn
    \/ CallerExcept

SpecReplay == InitReplay /\ [][NextReplay]_vars

\* ================================================================ claims
\* ---- helpers of the claims
\* The sequence lo, lo+1, ..., hi (empty when hi < lo).
Interval(lo, hi) == [k \in 1..Max(hi - lo + 1, 0) |-> lo + k - 1]
\* The number of update calls that returned at an index below i.
ReturnedBefore(i) ==
    Cardinality({k \in DOMAIN updLog : updLog[k].at < i /\ updLog[k].returned})
\* The indices clf.predict was called at.
ClassifiedSet == {predLog[j].at : j \in DOMAIN predLog}

\* C1: in every live run the volumes are loaded and preprocessed in the order
\* 0, 1, 2, ..., each index once, whatever the order in which the
\* notifications are put on the queue; when the notification of a higher
\* index was queued before that of a lower one, the lower index is still
\* processed first.
C1_ProcessedInIndexOrder ==
    /\ \A k \in DOMAIN processed : processed[k] = k - 1
    /\ tr_data = Range(processed)
    /\ Len(processed) \in {idx, idx + 1}
    /\ inversion # <<>> =>
          \A a, b \in DOMAIN processed :
             (processed[a] = inversion[1] /\ processed[b] = inversion[2]) => b < a

\* C1 witness: the notification of a higher index was queued before that of
\* a lower index and read while the consumer waited for the lower one, and
\* both volumes have been processed.
C1_Witness ==
    /\ inversion # <<>>
    /\ {inversion[1], inversion[2]} \subseteq Range(processed)
    /\ <<inversion[1], inversion[2]>> \in dropped

\* C3 as claimed: once an error has left realtime, the observer the run
\* started is stopped.
C3_ObserverStoppedOnError ==
    pc \in {"raised", "caught"} => file_observer = "stopped"

\* C10: tr_watcher returns the volume of the expected index only when its
\* file exists, either after the existence check succeeded or after reading
\* an event whose path is the expected file; an event with another path is
\* dropped and the watcher keeps waiting.
C10_WatcherReturnsExpectedFileOnly ==
    [][ /\ (pc \in {"check", "get"} /\ pc' = "loaded") =>
              /\ vol' = idx
              /\ fs[idx] = "complete"
              /\ \/ pc = "check" /\ woken' = "exists"
                 \/ /\ pc = "get"
                    /\ file_queue # <<>>
                    /\ Head(file_queue) = idx
                    /\ woken' = "event"
        /\ ( /\ pc = "get"
             /\ file_queue # <<>>
             /\ Head(file_queue) # idx
             /\ file_queue' = Tail(file_queue) ) =>
              /\ pc' = "get"
              /\ vol' = vol
              /\ <<Head(file_queue), idx>> \in dropped'
      ]_vars

\* C10 witness: the watcher has returned on the matching event after it
\* dropped another event during the same wait.
C10_Witness ==
    /\ pc = "loaded"
    /\ woken = "event"
    /\ vol = idx
    /\ \E d \in dropped : d[2] = idx

\* C2 as claimed: for every threshold train_count <= N, N included, a run
\* that has processed all N >= 1 volumes has made the initial fit exactly
\* once, at the index train_count.
C2_FitOnceForEveryThreshold ==
    (N >= 1 /\ Len(processed) = N /\ train_count <= N /\ pc \in {"stop", "returned"}) =>
        /\ Len(fitLog) = 1
        /\ fitLog[1].at = train_count

\* C2 amended: the initial fit is made exactly once, in the step of the
\* volume indexed train_count, when there is such a volume
\* (train_count < N): never before that step, never twice; a run with
\* train_count >= N makes no fit at all.
C2_FitOnceAtThreshold ==
    /\ Len(fitLog) = (IF train_count >= 0 /\ Len(processed) > train_count
                      THEN 1 ELSE 0)
    /\ \A k \in DOMAIN fitLog :
          /\ fitLog[k].at = train_count
          /\ train_count < N
    /\ train_count >= N => fitLog = <<>>

\* C2 witness: a run with volumes before and after the threshold has ended,
\* its single fit made at the threshold, on a batch that is not empty.
C2_Witness ==
    /\ pc = "returned"
    /\ Len(processed) = N
    /\ train_count > tr_shift
    /\ Len(fitLog) = 1
    /\ fitLog[1].at = train_count
    /\ fitLog[1].rows # <<>>
    /\ Len(predLog) >= 2

\* C4: with a non-zero incremental batch, in every step where an update is
\* called the prediction of that step was made before it: the prediction at
\* an index uses the model as it was before the update of that index, the
\* model produced by the fit and the updates of the lower indices.
C4_PredictBeforeUpdate ==
    incremental_batch > 0 =>
        /\ \A k \in DOMAIN updLog :
              \E j \in DOMAIN predLog :
                 /\ predLog[j].at = updLog[k].at
                 /\ predLog[j].model = updLog[k].before
        /\ \A j \in DOMAIN predLog :
              predLog[j].model = [id |-> 1, ver |-> 1 + ReturnedBefore(predLog[j].at)]

\* C4 witness: an update on a batch that is not empty has returned and a
\* later volume has been classified with the updated model.
C4_Witness ==
    /\ incremental_batch > 0
    /\ \E k \in DOMAIN updLog :
          /\ updLog[k].returned
          /\ updLog[k].rows # <<>>
          /\ Len(updLog[k].rows) = Len(updLog[k].labs)
          /\ \E j \in DOMAIN predLog :
                /\ predLog[j].at > updLog[k].at
                /\ predLog[j].model.ver > updLog[k].before.ver

\* C5: with incremental batch 0 no update is ever called, and every
\* prediction uses the model of the single initial fit, which stays the live
\* model until the run ends.
C5_NoUpdateWithoutBatch ==
    incremental_batch = 0 =>
        /\ updLog = <<>>
        /\ Len(fitLog) <= 1
        /\ clf \in {NoModel, FreshModel}
        /\ \A j \in DOMAIN predLog :
              /\ predLog[j].model = FreshModel
              /\ clf = FreshModel

\* C5 witness: a run with batch 0, trained on a batch that is not empty, has
\* classified several volumes and returned.
C5_Witness ==
    /\ incremental_batch = 0
    /\ pc = "returned"
    /\ fitLog # <<>>
    /\ fitLog[1].rows # <<>>
    /\ Len(predLog) >= 2
    /\ clf = FreshModel

\* C6 as claimed: the initial fit receives exactly the pairs (row i, label
\* i - tr_shift) for the i < train_count with i - tr_shift >= 0, so as many
\* rows as labels, also when train_count < tr_shift.
C6_FitPairsAligned ==
    \A k \in DOMAIN fitLog :
       /\ Len(fitLog[k].rows) = Len(fitLog[k].labs)
       /\ fitLog[k].rows = Interval(tr_shift, train_count - 1)
       /\ fitLog[k].labs = Interval(0, train_count - 1 - tr_shift)

\* C7 as claimed: an update call receives incremental_batch pairs (row i,
\* label i - tr_shift), the last of them the row of the volume classified
\* last, and the model it returns becomes the live model.
C7_UpdateGetsBatchPairs ==
    \A k \in DOMAIN updLog :
       /\ Len(updLog[k].rows) = incremental_batch
       /\ Len(updLog[k].labs) = incremental_batch
       /\ updLog[k].rows = Interval(updLog[k].at - incremental_batch + 1, updLog[k].at)
       /\ \A m \in DOMAIN updLog[k].rows :
             updLog[k].labs[m] = updLog[k].rows[m] - tr_shift

\* C8 as claimed: a run that returns has classified every index from
\* train_count through N - 1.
C8_ClassifiesFromThreshold ==
    pc = "returned" => ClassifiedSet = train_count..(N - 1)

\* C8 amended: the controller trains at index train_count on rows below
\* train_count only, and classifies the indices train_count + 1 .. N - 1, in
\* order and after the fit: the volume at train_count itself is not
\* classified.  With train_count = 5 and N = 10 (the shift is fixed at 3) it
\* trains on rows 3, 4 with labels 0, 1 and classifies 6, 7, 8, 9.  The
\* accuracy is num_correct over the number classified and lies in [0, 1].
C8_TrainThenClassifyRest ==
    /\ \A k \in DOMAIN fitLog :
          /\ fitLog[k].at = train_count
          /\ Range(fitLog[k].rows) \subseteq 0..(train_count - 1)
    /\ \A j \in DOMAIN predLog :
          /\ predLog[j].at = train_count + j
          /\ fitLog # <<>>
    /\ pc \in {"stop", "returned"} => ClassifiedSet = (train_count + 1)..(N - 1)
    /\ accuracy # Unbound =>
          /\ accuracy = <<num_correct, Len(predLog)>>
          /\ 0 <= accuracy[1]
          /\ accuracy[1] <= accuracy[2]
          /\ accuracy[2] > 0
    /\ pc = "returned" => accuracy # Unbound
    /\ (pc = "returned" /\ train_count = 5 /\ N = 10) =>
          /\ fitLog[1].rows = <<3, 4>>
          /\ fitLog[1].labs = <<0, 1>>
          /\ ClassifiedSet = {6, 7, 8, 9}

\* C8 witness: the run of the scenario, threshold 5 and 10 volumes, returned.
C8_Witness ==
    /\ pc = "returned"
    /\ train_count = 5
    /\ N = 10
    /\ Len(predLog) = 4

\* C9 as claimed: for every N >= 1 and train_count <= N, once the last index is
\* processed realtime stops its observer and returns the accuracy
\* num_correct / classified.
C9_ReturnsAccuracy ==
    (N >= 1 /\ train_count <= N /\ file_observer = "stopped") =>
        /\ pc = "returned"
        /\ accuracy = <<num_correct, Len(predLog)>>

\* C11 as claimed: a file whose name exists before its contents are written
\* does not make the run fail on the read: the read is tried again until the
\* contents are there, and a read failure is reported only after several
\* attempts.  tr_watcher makes one np.load per call, so a read failure that
\* leaves the run is a failure of the first attempt.
C11_PartialFileNeverCrashes ==
    pc \in {"raised", "caught"} => err # "load"

\* ---- C12
\* Has the sequence s no element twice.
NoRepeat(s) == \A a, b \in DOMAIN s : a # b => s[a] # s[b]
\* The events that ended a wait: the expected file of the index they woke.
MatchedEvents == {processed[k] : k \in DOMAIN processed} \cup
                 (IF pc \in {"loaded", "raised", "caught"} /\ woken = "event"
                  THEN {idx} ELSE {})

\* C12 as claimed: when the run has finished, every event that was put on
\* its queue has been dequeued, exactly once.
C12_EveryEventConsumedOnce ==
    /\ NoRepeat(consumed)
    /\ pc = "returned" => file_queue = <<>>

\* C12 amended: an event that was put on the queue is dequeued at most once,
\* never twice, and a dequeued event is either the one the controller waited
\* for or one it dropped during a wait; events may be left in the queue when
\* the run has finished.
C12_EventConsumedAtMostOnce ==
    /\ NoRepeat(consumed)
    /\ NoRepeat(file_queue)
    /\ Range(consumed) \cap Range(file_queue) = {}
    /\ \A k \in DOMAIN consumed :
          \/ consumed[k] \in MatchedEvents
          \/ \E d \in dropped : d[1] = consumed[k]

\* C12 witness: the run has returned after it dequeued an event it waited
\* for, with another event left in its queue.
C12_Witness ==
    /\ pc = "returned"
    /\ consumed # <<>>
    /\ file_queue # <<>>
    /\ \E k \in DOMAIN consumed : consumed[k] \in Range(processed)

\* ---- C13
\* The steps of realtime itself, from its first line to its return.
RealtimeStep ==
    \/ Setup
    \/ TrWatcherExists
    \/ TrWatcherMissing
    \/ TrWatcherGet
    \/ LoopBody
    \/ StopAndReturn

\* C13 as claimed: the only place where realtime can be blocked is the wait
\* for the notification of the next volume; at every other place, the wait
\* for the label file included, it has a step to take.
C13_BlocksOnlyAtVolumeWait ==
    pc \in {"labelwait", "check", "loaded", "stop"} => ENABLED RealtimeStep

\* C13 amended: realtime can be blocked at exactly two places: the wait for
\* the label file before the loop, for as long as the label file does not
\* exist, and the wait for the notification of the next volume, for as long
\* as the queue is empty; at every other place it has a step to take.
C13_BlocksAtTwoWaits ==
    /\ pc = "labelwait" => (ENABLED RealtimeStep <=> label_file)
    /\ pc = "get" => (ENABLED RealtimeStep <=> file_queue # <<>>)
    /\ pc \in {"check", "loaded", "stop"} => ENABLED RealtimeStep

\* C13 witness: realtime got past the label wait and some volumes and is
\* blocked in the wait for the next volume, nothing queued.
C13_Witness ==
    /\ pc = "get"
    /\ idx >= 1
    /\ file_queue = <<>>
    /\ ~ENABLED RealtimeStep

\* C14 as claimed: when an update call fails, the model that was live before
\* the call stays the live model and stays in use: the run goes on
\* classifying with it.
C14_FailedUpdateKeepsModel ==
    \A k \in DOMAIN updLog :
       ~updLog[k].returned =>
           /\ clf = updLog[k].before
           /\ pc \notin {"raised", "caught"}

\* C15: a predict attempted when no fit has been made raises an error (the
\* UnboundLocalError of clf) and returns no label; the controller stays as
\* before training: no model, no prediction counted, no accuracy, and the
\* rows collected at lower indices as they were.  No prediction is ever
\* made with no model.
C15_PredictBeforeFitRaises ==
    /\ \A j \in DOMAIN predLog : predLog[j].model # NoModel
    /\ (fitLog = <<>> /\ idx > train_count /\ Len(processed) = idx + 1) =>
          /\ pc \in {"raised", "caught"}
          /\ err = "UnboundLocalError"
          /\ clf = NoModel
          /\ predLog = <<>>
          /\ num_correct = 0
          /\ accuracy = Unbound
          /\ tr_data = 0..idx

\* C15 witness: a run whose threshold lies below its first index came to
\* the prediction of volume 0 with no fit made, and the error left realtime.
C15_Witness ==
    /\ pc = "raised"
    /\ err = "UnboundLocalError"
    /\ file_observer = "running"
    /\ train_count < 0
    /\ processed = <<0>>
    /\ fitLog = <<>>

\* ---- C16
\* The exceptions that can leave realtime.
RunErrors == {"load", "preprocess", "fit", "predict", "update", "UnboundLocalError"}

\* C16 as claimed: the wait for the next volume can be given a timeout, so
\* that a wait in which nothing is queued ends, with a timeout error for the
\* caller, instead of blocking.
C16_WaitEndsOnTimeout ==
    (pc = "get" /\ file_queue = <<>>) => ENABLED TrWatcherGet

\* C16 amended: the wait for the next volume has no timeout and none can be
\* set: while nothing is queued the watcher has no step, it neither returns
\* nor raises, and no timeout error ever leaves the run.
C16_WaitHasNoTimeout ==
    /\ (pc = "get" /\ file_queue = <<>>) => ~ENABLED TrWatcherGet
    /\ pc \in {"raised", "caught"} <=> err \in RunErrors
    /\ err \in RunErrors \cup {"none"}

\* C16 witness: the watcher waits for a file that is not there, the events
\* it read so far were dropped, and nothing more is queued or on its way.
C16_Witness ==
    /\ pc = "get"
    /\ fs[idx] = "absent"
    /\ file_queue = <<>>
    /\ pending = {}
    /\ dropped # {}

\* ---- C17
\* The indices at which clf_obj was called for an update.
UpdatedAt == {updLog[k].at : k \in DOMAIN updLog}

\* C17: with a non-zero incremental batch B the update is called exactly at
\* the classified indices idx > train_count for which idx - train_count is a
\* positive multiple of B, once at each of them, and at no other index:
\* never while collecting and never at the index train_count.
C17_UpdateEveryBatch ==
    incremental_batch > 0 =>
        /\ \A k \in DOMAIN updLog :
              /\ updLog[k].at > train_count
              /\ (updLog[k].at - train_count) % incremental_batch = 0
              /\ (updLog[k].at - train_count) \div incremental_batch = k
              /\ updLog[k].at \in ClassifiedSet
        /\ \A i \in ClassifiedSet :
              (i - train_count) % incremental_batch = 0 => i \in UpdatedAt
        /\ Len(updLog) = Cardinality(UpdatedAt)

\* C17 witness: a run with batches of at least two volumes has returned
\* after two or more updates, with classified volumes in between that
\* called none.
C17_Witness ==
    /\ pc = "returned"
    /\ incremental_batch >= 2
    /\ train_count >= 1
    /\ Len(updLog) >= 2
    /\ ClassifiedSet \ UpdatedAt # {}

\* C18 as claimed: after each classified volume the accuracy is num_correct
\* over the number of volumes classified so far, with 0 <= num_correct <=
\* classified, a divisor that is never zero and so an accuracy in [0, 1];
\* and the label each prediction is compared with is the ground-truth label
\* of the index idx - tr_shift.
C18_RunningAccuracy ==
    /\ 0 <= num_correct
    /\ num_correct <= Len(predLog)
    /\ accuracy # Unbound =>
          /\ accuracy = <<num_correct, Len(predLog)>>
          /\ accuracy[2] > 0
          /\ accuracy[1] <= accuracy[2]
    /\ \A j \in DOMAIN predLog :
          /\ predLog[j].lab = predLog[j].at - tr_shift
          /\ predLog[j].lab \in 0..(N - 1)

\* ---- C19
\* The indices whose loop turn only stored the volume: no fit, no
\* prediction, and not the turn an error ended.
CollectedOnly ==
    {i \in Range(processed) :
        /\ \A k \in DOMAIN fitLog : fitLog[k].at # i
        /\ i \notin ClassifiedSet
        /\ ~(pc \in {"raised", "caught"} /\ i = idx)}

\* C19: the phases come in the order collecting, training, classifying
\* (with the updates in between), finished: every prediction and every
\* update comes after the initial fit has returned a model, at a higher
\* index; every turn that only collects comes before the fit; and realtime
\* returns only when the last index has been processed.
C19_PhasesInOrder ==
    /\ \A j \in DOMAIN predLog :
          /\ fitLog # <<>>
          /\ fitLog[1].at < predLog[j].at
          /\ predLog[j].model # NoModel
    /\ \A k \in DOMAIN updLog :
          /\ fitLog # <<>>
          /\ fitLog[1].at < updLog[k].at
          /\ updLog[k].before # NoModel
    /\ \A i \in CollectedOnly : fitLog # <<>> => i < fitLog[1].at
    /\ \A i \in ClassifiedSet : \A c \in CollectedOnly : c < i
    /\ pc = "returned" =>
          /\ idx = N
          /\ Range(processed) = 0..(N - 1)

\* C19 witness: a run has gone through all the phases and returned: it
\* collected, made its fit, classified and updated.
C19_Witness ==
    /\ pc = "returned"
    /\ CollectedOnly # {}
    /\ fitLog # <<>>
    /\ fitLog[1].rows # <<>>
    /\ Len(predLog) >= 2
    /\ \E k \in DOMAIN updLog : updLog[k].returned

\* ---- C20
\* The number of update calls that returned a model.
ReturnedUpdates == Cardinality({k \in DOMAIN updLog : updLog[k].returned})

\* C20: the comparison of a prediction with its label serves the evaluation
\* only.  The live model is the one the initial fit returned, changed once
\* by every update that returned and by nothing else: whatever the
\* predictions and the count of correct ones were, a classification turn
\* without update leaves it as it was.  An update is given rows stored in
\* tr_data and labels of the label file, and the model that was live when
\* the prediction of its turn was made.
C20_ComparisonForEvaluationOnly ==
    /\ clf \in {NoModel, [id |-> 1, ver |-> 1 + ReturnedUpdates]}
    /\ predLog # <<>> => clf # NoModel
    /\ \A k \in DOMAIN updLog :
          /\ Range(updLog[k].rows) \subseteq tr_data
          /\ Range(updLog[k].labs) \subseteq 0..(N - 1)
          /\ \E j \in DOMAIN predLog :
                /\ predLog[j].at = updLog[k].at
                /\ predLog[j].model = updLog[k].before

\* C20 witness: a run in which predictions were right and predictions were
\* wrong, with an update that returned, has ended.
C20_Witness ==
    /\ pc = "returned"
    /\ 0 < num_correct
    /\ num_correct < Len(predLog)
    /\ ReturnedUpdates >= 1
    /\ clf = [id |-> 1, ver |-> 1 + ReturnedUpdates]

\* ---- C21
\* The model, the stored feature rows and the accuracy counters.
ConsumerData == <<clf, tr_data, num_correct, accuracy>>

\* C21: a callback of the handler puts one event, the one of the created
\* file, at the tail of the run's queue and touches nothing else of the
\* run: not the model, not the stored rows, not the counters, not the
\* position of the loop.  The model, the rows and the counters change only
\* in a turn of the consumer loop, which puts nothing on the queue.
C21_HandlerOnlyEnqueues ==
    [][ /\ Len(file_queue') > Len(file_queue) =>
              /\ \E i \in pending :
                    /\ file_queue' = Append(file_queue, i)
                    /\ pending' = pending \ {i}
              /\ UNCHANGED <<ConsumerData, consumer, history, watched>>
        /\ ConsumerData' # ConsumerData =>
              /\ pc = "loaded"
              /\ file_queue' = file_queue
              /\ pending' = pending
      ]_vars

\* C21 witness: two callbacks have queued their events, in callback order,
\* while the consumer holds a trained model and stored rows.
C21_Witness ==
    /\ Len(file_queue) >= 2
    /\ \A a, b \in DOMAIN file_queue : a < b => file_queue[a] < file_queue[b]
    /\ inversion = <<>>
    /\ clf # NoModel
    /\ tr_data # {}

\* C22: as long as the label file does not exist realtime stays in its wait
\* for it: the observer is not created, no volume is loaded or stored and
\* no fit is made, whatever volumes are already on disk.  The observer is
\* started, volumes are loaded and the fit is made only with the label file
\* there.
C22_NothingBeforeLabels ==
    /\ ~label_file =>
          /\ pc = "labelwait"
          /\ file_observer = "none"
          /\ vol = NoVol
          /\ tr_data = {}
          /\ processed = <<>>
          /\ fitLog = <<>>
          /\ clf = NoModel
          /\ file_queue = <<>>
    /\ (file_observer # "none" \/ pc # "labelwait" \/ fitLog # <<>>) => label_file

\* C22 witness: volumes are on disk, the label file is not, and realtime
\* waits without an observer and without having loaded anything.
C22_Witness ==
    /\ ~label_file
    /\ fs[0] = "complete"
    /\ fs[1] = "complete"
    /\ pc = "labelwait"
    /\ file_observer = "none"

\* ---- C23
\* What the polling watcher does and does not do, without the question of
\* whether it ends: it leaves its loop only on a test that found the file,
\* and on a test that did not find it it only goes to sleep.
SimpleWatcherSteps ==
    [][ /\ (pc # pc' /\ pc' \in {"loaded", "raised"}) =>
              /\ pc = "exists"
              /\ fs[idx] # "absent"
        /\ (pc # pc' /\ pc' = "loaded") =>
              /\ fs[idx] = "complete"
              /\ vol' = idx
        /\ (pc = "exists" /\ pc # pc' /\ fs[idx] = "absent") =>
              /\ pc' = "sleep"
              /\ vol' = vol
              /\ err' = err
        /\ (pc = "sleep" /\ pc # pc') => pc' = "exists"
      ]_vars

SeenByObserver(i) == i \in pending \cup Range(file_queue) \cup Range(consumed)

\* C24 as claimed: no wakeup is lost.  Once the file of the expected index
\* has been created with the observer of the run running, the call of
\* tr_watcher that waits for it eventually returns its volume, however the
\* steps of the producer and of the consumer interleave: also when the file
\* is created between the existence check and the read of the queue, and
\* when its event was dequeued and dropped during the wait for a lower index.
C24_NoLostWakeup ==
    \A i \in 0..(MaxFiles - 1) :
       (pc \in {"check", "get"} /\ idx = i /\ fs[i] # "absent" /\ SeenByObserver(i))
          ~> (pc = "loaded" /\ vol = i)

\* What does hold of the wakeups: when the contents of the expected file
\* are on disk during the wait, the call eventually returns its volume, and
\* every wait for a file that was created eventually ends.
WatcherWaitEnds ==
    \A i \in 0..(MaxFiles - 1) :
       /\ (pc \in {"check", "get"} /\ idx = i /\ fs[i] = "complete")
             ~> (pc = "loaded" /\ vol = i)
       /\ (pc \in {"check", "get"} /\ idx = i /\ fs[i] # "absent")
             ~> (pc \in {"loaded", "raised"})

\* C25 as claimed: every update call, for every batch size >= 1, is given
\* as many rows as labels and at least one of each: the rows of the indices
\* idx - B + tr_shift .. idx - 1 and the labels of the indices
\* idx - B .. idx - tr_shift - 1, row i with label i - tr_shift.
C25_UpdateBatchNotEmpty ==
    (incremental_batch >= 1 /\ train_count >= 0) =>
        \A k \in DOMAIN updLog :
           LET at == updLog[k].at
           IN  /\ Len(updLog[k].rows) = Len(updLog[k].labs)
               /\ Len(updLog[k].rows) >= 1
               /\ updLog[k].rows =
                     Interval(at - incremental_batch + tr_shift, at - 1)
               /\ updLog[k].labs =
                     Interval(at - incremental_batch, at - tr_shift - 1)

\* C26 as claimed: for every threshold >= 0 the label a classified volume
\* idx is compared with is the one of index idx - tr_shift, an index in
\* 0 .. N - 1: never a negative index that wraps around.
C26_EvalIndexInRange ==
    train_count >= 0 =>
        \A j \in DOMAIN predLog :
           /\ predLog[j].at - tr_shift >= 0
           /\ predLog[j].at - tr_shift <= N - 1
           /\ predLog[j].lab = predLog[j].at - tr_shift

C28_LabelEncodingRoundTrip ==
    /\ \A c \in all_classes :
          AsLabel([dtype |-> "bool", val |-> LogisticTarget(c)]) = c
    /\ lastPred # <<>> =>
          /\ lastPred.hit <=> (lastPred.raw.val = FitTarget(labels[lastPred.lab + 1]))
          /\ clf_obj = "train_logistic" =>
                /\ lastPred.raw.dtype = "bool"
                /\ lastPred.compared = lastPred.raw.val + 1
                /\ lastPred.raw.val = 0 <=> lastPred.compared = 1
                /\ lastPred.raw.val = 1 <=> lastPred.compared = 2
          /\ clf_obj = "train_incremental" =>
                /\ lastPred.raw.dtype = "int"
                /\ lastPred.compared = lastPred.raw.val

\* C28 witness: a model of train_logistic has predicted True, which was
\* compared as label 2 with a label 2 and counted as correct.
C28_Witness ==
    /\ clf_obj = "train_logistic"
    /\ lastPred # <<>>
    /\ lastPred.raw = [dtype |-> "bool", val |-> 1]
    /\ lastPred.compared = 2
    /\ labels[lastPred.lab + 1] = 2
    /\ lastPred.hit
    /\ num_correct >= 1

\* C29: the incremental trainer makes a new model only when it is passed
\* none, which is at the initial fit; an update is passed the live model
\* and returns that same model, updated once more, so the live model of a
\* run is one and the same object from the fit to the end; and every call
\* of the trainer, the fit and the updates, declares the class set {1, 2}.
C29_IncrementalKeepsModel ==
    clf_obj = "train_incremental" =>
        /\ clf # NoModel =>
              /\ clf.id = FreshModel.id
              /\ clf.ver = 1 + ReturnedUpdates
        /\ \A k \in DOMAIN fitLog : fitLog[k].classes = {1, 2}
        /\ \A k \in DOMAIN updLog :
              /\ updLog[k].classes = {1, 2}
              /\ updLog[k].before # NoModel
              /\ updLog[k].before.id = FreshModel.id
              /\ updLog[k].before.ver = k
        /\ \A j \in DOMAIN predLog : predLog[j].model.id = FreshModel.id

\* C29 witness: a run with the incremental trainer has made two updates
\* that returned, and classified with the model after them.
C29_Witness ==
    /\ clf_obj = "train_incremental"
    /\ ReturnedUpdates >= 2
    /\ clf = [id |-> 1, ver |-> 3]
    /\ \E j \in DOMAIN predLog : predLog[j].model = [id |-> 1, ver |-> 3]

====
